---- MODULE Spec2Model ----
(***************************************************************************)
(* The delivery-item lifecycle engine of SAFER: the file-backed item       *)
(* repository (lib/data), the commands that drive it (create, dod,         *)
(* complete, archive, delete) and the GitHub importer.                     *)
(*                                                                         *)
(* An item id "DI-007" is modelled by the digit string after "DI-", the    *)
(* tuple <<0,0,7>>.  The active store is the directory data/active: a      *)
(* function from file key (the id) to the record in the file.  The archive *)
(* store is data/archive/<year>/<month>: a function from <<partition,id>>  *)
(* to the record.  Time is counted in hours from Monday 29 December 2025,   *)
(* 00:00 (the first hour of ISO week 2026-W01); the archive partition is   *)
(* the index of the calendar month of the hour.                            *)
(*                                                                         *)
(* The data directory is a git working tree.  The repository keeps the     *)
(* content of the staging area and of the last commit as copies of the     *)
(* three data directories, and the list of commit messages.  A weekly      *)
(* review is a markdown file, modelled as its sequence of lines.           *)
(***************************************************************************)
EXTENDS Integers, Sequences, FiniteSets, TLC

\* ---- bounds of the model -------------------------------------------------
\* the repository specification (create, archive, delete, clock)
MaxLimit == 4
MaxIdRepo == 4
MaxArchived == 2
MaxMonth == 2
\* the importer specification (create, import, archive, delete)
MaxLimitImp == 3
MaxIdImp == 4
MaxArchivedImp == 1
MaxIssue == 2
MaxFetch == 2
\* the specification of all commands
MaxIdNum == 2
MaxDod == 1
\* the batch specification (import, delete)
MaxBatch == 3
\* the version-control specifications
MaxIdGit == 1
MaxCommits == 2
\* the completion specification
MaxIdDone == 1
MaxDodDone == 2
MaxDaysDone == 2
\* the review specification
MaxReviewDay == 10

MaxProcs == 2

\* ---- program constants ---------------------------------------------------
MinMaxWIP == 1
\* DEFAULT_CONFIG.limits.maxWIP
DefaultMaxWIP == 3
HardCodedSlots == 3
IdPadWidth == 3
\* 1000 * 60 * 60 * 24 milliseconds, in hours
HoursPerDay == 24
\* the divisor of getWeekNumber
DaysPerWeek == 7
\* padStart(2, '0') of the week number
WeekPadWidth == 2

VARIABLES maxWIP, active, archive, now, last, issuedMax, gitConfig, repo, reviews,
          github, procs

vars == <<maxWIP, active, archive, now, last, issuedMax, gitConfig, repo, reviews,
          github, procs>>

\* ---- small helpers -------------------------------------------------------
Min(a, b) == IF a < b THEN a ELSE b

Max(a, b) == IF a > b THEN a ELSE b

RECURSIVE SetMax(_)
SetMax(S) == IF S = {} THEN 0
             ELSE LET x == CHOOSE y \in S : TRUE IN Max(x, SetMax(S \ {x}))

\* String(n): the decimal digits of n
RECURSIVE Digits(_)
Digits(n) == IF n < 10 THEN <<n>> ELSE Digits(n \div 10) \o <<n % 10>>

\* padStart(len, '0')
RECURSIVE PadStart(_, _)
PadStart(s, len) == IF Len(s) >= len THEN s ELSE PadStart(<<0>> \o s, len)

\* parseInt(digits, 10)
RECURSIVE ParseInt(_)
ParseInt(s) == IF Len(s) = 0 THEN 0
               ELSE 10 * ParseInt(SubSeq(s, 1, Len(s) - 1)) + s[Len(s)]

\* `DI-${String(n).padStart(3, '0')}`
FormatId(n) == PadStart(Digits(n), IdPadWidth)

\* item.id.match(/DI-(\d+)/) ? parseInt(match[1], 10) : 0
IdNumber(id) == IF Len(id) > 0 THEN ParseInt(id) ELSE 0

\* lexicographic order of two digit strings (directory listing order)
RECURSIVE LexLess(_, _)
LexLess(s, t) == IF Len(t) = 0 THEN FALSE
                 ELSE IF Len(s) = 0 THEN TRUE
                 ELSE IF s[1] # t[1] THEN s[1] < t[1]
                 ELSE LexLess(Tail(s), Tail(t))

\* Math.ceil(a / b) for a positive b
CeilDiv(a, b) == -((-a) \div b)

\* ---- the calendar -------------------------------------------------------
\* the day of an hour; day 0 is Monday 29 December 2025
DayOf(t) == t \div HoursPerDay

\* Date.getFullYear(): 1 January 2026 is day 3 (2025, 2026 and 2027 have 365
\* days)
getFullYear(day) == 2026 + ((day - 3) \div 365)

\* Date.UTC(year, 0, 1) as a day
YearStart(year) == 3 + (year - 2026) * 365

\* Date.getUTCDay(): 0 for Sunday
getUTCDay(day) == (day + 1) % 7

\* getWeekNumber(date): the week number of the Thursday of the date's week
getWeekNumber(day) ==
  LET dayNum == IF getUTCDay(day) = 0 THEN 7 ELSE getUTCDay(day)
      d == day + 4 - dayNum
      yearStart == YearStart(getFullYear(d))
  IN CeilDiv((d - yearStart) + 1, DaysPerWeek)

\* the first days of December 2025, January 2026, ..., June 2026
MonthStarts == <<-28, 3, 34, 62, 93, 123, 154>>

\* the year/month directory of archiveItem(), as the index of the month
Partition(t) == Cardinality({i \in 1..Len(MonthStarts) : MonthStarts[i] <= DayOf(t)})

\* ---- the repository (lib/data) ------------------------------------------
\* listActiveItems(): the records of data/active, sorted by wipSlot
\* (a stable sort of the directory listing)
RECURSIVE SortBySlot(_, _)
SortBySlot(act, keys) ==
  IF keys = {} THEN <<>>
  ELSE LET k == CHOOSE x \in keys : \A y \in keys \ {x} :
                  \/ act[x].wipSlot < act[y].wipSlot
                  \/ act[x].wipSlot = act[y].wipSlot /\ LexLess(x, y)
       IN <<act[k]>> \o SortBySlot(act, keys \ {k})

listActiveItems(act) == SortBySlot(act, DOMAIN act)

\* listArchivedItems(): every record of every partition, most recently
\* updated first (ties in directory order)
RECURSIVE SortByUpdated(_, _)
SortByUpdated(arch, keys) ==
  IF keys = {} THEN <<>>
  ELSE LET k == CHOOSE x \in keys : \A y \in keys \ {x} :
                  \/ arch[x].updated > arch[y].updated
                  \/ arch[x].updated = arch[y].updated
                     /\ (x[1] < y[1] \/ (x[1] = y[1] /\ LexLess(x[2], y[2])))
       IN <<arch[k]>> \o SortByUpdated(arch, keys \ {k})

listArchivedItems(arch) == SortByUpdated(arch, DOMAIN arch)

Range(s) == {s[i] : i \in 1..Len(s)}

\* metrics.cycleTime is <<>> for null and <<n>> for the number n;
\* metrics.completionRate is the quotient <<numerator, denominator>>
NoItem == [id |-> <<>>, status |-> "none", wipSlot |-> 0, issues |-> {},
           dod |-> <<>>, created |-> 0, updated |-> 0,
           cycleTime |-> <<>>, completionRate |-> <<0, 1>>]

\* getItem(id) that looks into the archive first
getItemArchiveFirst(id, act, arch) ==
  LET items == listArchivedItems(arch)
      hits == {i \in 1..Len(items) : items[i].id = id}
  IN IF hits # {} THEN items[CHOOSE i \in hits : \A j \in hits : i <= j]
     ELSE IF id \in DOMAIN act THEN act[id]
     ELSE NoItem

\* getItem(id): the active file if it exists, else the first archived record
\* with that id, else null
getItem(id, act, arch) ==
  IF id \in DOMAIN act THEN act[id]
  ELSE LET items == listArchivedItems(arch)
           hits == {i \in 1..Len(items) : items[i].id = id}
       IN IF hits = {} THEN NoItem
          ELSE items[CHOOSE i \in hits : \A j \in hits : i <= j]

\* generateNextId() of lib/data: max over active and archived, plus one
generateNextId(act, arch) ==
  LET allItems == listActiveItems(act) \o listArchivedItems(arch)
      ids == {IdNumber(allItems[i].id) : i \in 1..Len(allItems)}
  IN IF Len(allItems) = 0 THEN FormatId(1)
     ELSE FormatId(SetMax(ids) + 1)

\* checkWipLimit() with the comparison currentWip <= maxWip
checkWipLimitBroken(act, N) ==
  LET currentWip == Len(listActiveItems(act))
  IN [isWithinLimit |-> currentWip <= N, currentWip |-> currentWip, maxWip |-> N]

\* checkWipLimit()
checkWipLimit(act, N) ==
  LET currentWip == Len(listActiveItems(act))
  IN [isWithinLimit |-> currentWip < N, currentWip |-> currentWip, maxWip |-> N]

\* getNextWipSlot(): lowest of 1..3 not used, else 1
getNextWipSlot(act) ==
  LET items == listActiveItems(act)
      usedSlots == {items[i].wipSlot : i \in 1..Len(items)}
      free == {s \in 1..HardCodedSlots : s \notin usedSlots}
  IN IF free = {} THEN 1 ELSE CHOOSE s \in free : \A t \in free : s <= t

\* saveItem(item): touch `updated`, overwrite data/active/<id>.json
saveItem(act, item, t) ==
  LET it == [item EXCEPT !.updated = t]
  IN [k \in DOMAIN act \cup {it.id} |-> IF k = it.id THEN it ELSE act[k]]

\* archiveItem(item), the write: status=archived, updated=now, written to
\* the partition of now
archiveWrite(arch, item, t) ==
  LET it == [item EXCEPT !.status = "archived", !.updated = t]
      key == <<Partition(t), it.id>>
  IN [k \in DOMAIN arch \cup {key} |-> IF k = key THEN it ELSE arch[k]]

\* archiveItem(item), the removal of the active file if it exists
\* (deleteItem(id) does the same)
removeActive(act, id) == [k \in DOMAIN act \ {id} |-> act[k]]

\* deleteItem(id) that reports a removal whether or not a file existed
deleteItemAlwaysTrue(act, id) == [act |-> removeActive(act, id), ret |-> TRUE]

\* deleteItem(id): unlinks the active file if it exists and returns whether
\* it did
deleteItem(act, id) ==
  IF id \in DOMAIN act THEN [act |-> removeActive(act, id), ret |-> TRUE]
  ELSE [act |-> act, ret |-> FALSE]

\* ---- state ---------------------------------------------------------------
NoResult == [success |-> FALSE, imported |-> 0, skipped |-> 0,
             errors |-> <<>>, items |-> <<>>]

\* ---- the importer (lib/importers/github) --------------------------------
\* the same set built from the active items alone
importedGitHubIssuesActiveOnly(act, arch) ==
  LET allExistingItems == listActiveItems(act)
  IN UNION {allExistingItems[i].issues : i \in 1..Len(allExistingItems)}

\* the set of issue numbers linked on any active or archived item
importedGitHubIssues(act, arch) ==
  LET allExistingItems == listActiveItems(act) \o listArchivedItems(arch)
  IN UNION {allExistingItems[i].issues : i \in 1..Len(allExistingItems)}

\* the fetched candidates that are not linked yet
newItemsOf(cands, act, arch) ==
  SelectSeq(cands, LAMBDA c : c \notin importedGitHubIssues(act, arch))

\* the ascending list of slots of 1..maxWip no active item uses, cut as soon
\* as it holds toImport entries
RECURSIVE freeSlotsFrom(_, _, _, _)
freeSlotsFrom(i, maxWip, usedSlots, toImport) ==
  IF i > maxWip THEN <<>>
  ELSE IF i \notin usedSlots
       THEN IF 1 >= toImport THEN <<i>>
            ELSE <<i>> \o freeSlotsFrom(i + 1, maxWip, usedSlots, toImport - 1)
       ELSE freeSlotsFrom(i + 1, maxWip, usedSlots, toImport)

\* the slots taken as the ones that follow the active count
nextSlotsContiguous(act, maxWip, toImport) ==
  LET activeItems == listActiveItems(act)
  IN [i \in 1..Min(toImport, maxWip - Len(activeItems)) |-> Len(activeItems) + i]

nextSlotsOf(act, maxWip, toImport) ==
  LET activeItems == listActiveItems(act)
      usedSlots == {activeItems[i].wipSlot : i \in 1..Len(activeItems)}
  IN freeSlotsFrom(1, maxWip, usedSlots, toImport)

\* the id computed from the active items as they were before the batch
importerGenerateNextIdStale(act) ==
  LET items == listActiveItems(active)
      existingIds == {IdNumber(items[i].id) : i \in 1..Len(items)}
      maxId == IF Len(items) > 0 THEN SetMax(existingIds) ELSE 0
  IN FormatId(maxId + 1)

\* GitHubImporter.generateNextId(): max over the active items, plus one
importerGenerateNextId(act) ==
  LET items == listActiveItems(act)
      existingIds == {IdNumber(items[i].id) : i \in 1..Len(items)}
      maxId == IF Len(items) > 0 THEN SetMax(existingIds) ELSE 0
  IN FormatId(maxId + 1)

\* the DoD list an imported item starts with: three standard entries and one
\* source-specific entry, all open
SeededDod == [i \in 1..4 |-> [id |-> i, completed |-> FALSE, completedAt |-> <<>>]]

\* convertToDeliveryItem(imported, wipSlot): the item fields of an issue
convertToDeliveryItem(issueNum, wipSlot) ==
  [id |-> <<>>, status |-> "active", wipSlot |-> wipSlot,
   issues |-> {issueNum}, dod |-> SeededDod, created |-> 0, updated |-> 0,
   cycleTime |-> <<>>, completionRate |-> <<0, 1>>]

\* the batch loop stopped by the first creation that throws
RECURSIVE importLoopAbort(_, _, _, _, _, _, _, _)
importLoopAbort(i, toImport, toImportList, nextSlots, fails, act, res, t) ==
  IF i > toImport THEN [act |-> act, res |-> res]
  ELSE IF i \in fails
       THEN [act |-> act,
             res |-> [res EXCEPT !.errors = Append(@, "Failed"), !.skipped = @ + 1]]
       ELSE LET wipSlot == IF i <= Len(nextSlots) THEN nextSlots[i] ELSE 0
                partial == convertToDeliveryItem(toImportList[i], wipSlot)
                nextId == importerGenerateNextId(act)
                deliveryItem == [partial EXCEPT !.id = nextId, !.created = t,
                                                !.updated = t]
            IN importLoopAbort(i + 1, toImport, toImportList, nextSlots, fails,
                               saveItem(act, deliveryItem, t),
                               [res EXCEPT !.items = Append(@, deliveryItem),
                                           !.imported = @ + 1], t)

\* the batch loop of import(): candidate i gets nextSlots[i] and a fresh id;
\* a creation that throws is recorded and skipped
RECURSIVE importLoop(_, _, _, _, _, _, _, _)
importLoop(i, toImport, toImportList, nextSlots, fails, act, res, t) ==
  IF i > toImport THEN [act |-> act, res |-> res]
  ELSE IF i \in fails
       THEN importLoop(i + 1, toImport, toImportList, nextSlots, fails, act,
                       [res EXCEPT !.errors = Append(@, "Failed"),
                                   !.skipped = @ + 1], t)
       ELSE LET wipSlot == IF i <= Len(nextSlots) THEN nextSlots[i] ELSE 0
                partial == convertToDeliveryItem(toImportList[i], wipSlot)
                nextId == importerGenerateNextId(act)
                deliveryItem == [partial EXCEPT !.id = nextId, !.created = t,
                                                !.updated = t]
            IN importLoop(i + 1, toImport, toImportList, nextSlots, fails,
                          saveItem(act, deliveryItem, t),
                          [res EXCEPT !.items = Append(@, deliveryItem),
                                      !.imported = @ + 1], t)

\* the test `availableSlots === 0` written as a test for a negative headroom
wipLimitReachedNegative(availableSlots) == availableSlots < 0

\* if (availableSlots === 0): the WIP limit leaves no room
wipLimitReached(availableSlots) == availableSlots = 0

\* the test `newItems.length === 0` taken as never true
nothingNewNever(newItems) == FALSE

\* if (newItems.length === 0): every fetched issue is imported already
nothingNew(newItems) == Len(newItems) = 0

\* import(options), given the fetched candidates and the loop indexes at
\* which the creation throws
importRun(act, arch, N, cands, fails, t) ==
  LET newItems == newItemsOf(cands, act, arch)
      dups == Len(cands) - Len(newItems)
      wipCheck == checkWipLimit(act, N)
      availableSlots == wipCheck.maxWip - wipCheck.currentWip
      toImport == Min(Len(newItems), availableSlots)
      res1 == [NoResult EXCEPT !.skipped = dups]
      res2 == IF toImport < Len(newItems)
              THEN [res1 EXCEPT !.errors = Append(@, "Capped")] ELSE res1
      out == importLoop(1, toImport, newItems, nextSlotsOf(act, wipCheck.maxWip, toImport),
                        fails, act, res2, t)
  IN IF Len(cands) = 0
     THEN [act |-> act, res |-> [NoResult EXCEPT !.success = TRUE], failed |-> {}]
     ELSE IF nothingNew(newItems)
     THEN [act |-> act,
           res |-> [res1 EXCEPT !.success = TRUE, !.errors = <<"AllImported">>],
           failed |-> {}]
     ELSE IF wipLimitReached(availableSlots)
     THEN [act |-> act, res |-> [res1 EXCEPT !.errors = <<"WipLimit">>], failed |-> {}]
     ELSE [act |-> out.act,
           res |-> [out.res EXCEPT
                      !.skipped = @ + (Len(newItems) - toImport),
                      !.success = out.res.imported > 0],
           failed |-> fails \cap (1..toImport)]

\* ---- version control (lib/git) -------------------------------------------
\* the content of the data directory: active, archive and reviews
Tree(act, arch, rev) == <<act, arch, rev>>

\* DEFAULT_CONFIG.git
DefaultGitConfig == [autoCommit |-> TRUE, commitPrefix |-> <<"[SAFER]">>,
                     remoteSync |-> FALSE, remoteName |-> "origin"]

\* the repository after initRepo(): the data directories are empty, the
\* history holds the initial commit; `unreliable` tells whether git calls
\* may throw and the process may crash
InitialRepo == [index |-> Tree(<< >>, << >>, << >>),
                head |-> Tree(<< >>, << >>, << >>),
                history |-> << <<"Initial commit">> >>,
                remotes |-> {}, remoteCalls |-> {}, unreliable |-> FALSE]

\* the commit message without the prefix
fullMessageBare(prefix, message) == message

\* `${config.git.commitPrefix} ${message}`
fullMessage(prefix, message) == prefix \o <<" ">> \o message

\* status.files.length === 0: nothing staged, nothing changed
statusClean(rp, tree) == rp.index = rp.head /\ tree = rp.head

\* the git calls of commit() that may throw, and the crash of the process
\* before commit() is reached
GitFaultKinds == {"none", "add", "commit", "crash"}

\* commit(message) on the working tree `tree`; `fault` names the git call
\* that throws
commit(cfg, rp, tree, message, fault) ==
  IF fault = "crash" THEN [repo |-> rp, err |-> "crash"]
  ELSE IF ~cfg.autoCommit THEN [repo |-> rp, err |-> "none"]
  ELSE IF statusClean(rp, tree) THEN [repo |-> rp, err |-> "none"]
  ELSE IF fault = "add" THEN [repo |-> rp, err |-> "add"]
  ELSE LET added == [rp EXCEPT !.index = tree]
       IN IF fault = "commit" THEN [repo |-> added, err |-> "commit"]
          ELSE [repo |-> [added EXCEPT
                            !.head = tree,
                            !.history = Append(@, fullMessage(cfg.commitPrefix, message))],
                err |-> "none"]

\* the test of push() and pull() with the remote taken as always enabled
remoteSyncDisabledNever(cfg) == FALSE

\* if (!config.git.remoteSync)
remoteSyncDisabled(cfg) == ~cfg.remoteSync

\* the two checks that precede the remote call of push() and pull()
remoteError(cfg, rp) ==
  IF remoteSyncDisabled(cfg) THEN "SyncDisabled"
  ELSE IF cfg.remoteName \notin rp.remotes THEN "RemoteNotConfigured"
  ELSE "none"

\* push()
push(cfg, rp) ==
  IF remoteError(cfg, rp) # "none" THEN [repo |-> rp, err |-> remoteError(cfg, rp)]
  ELSE [repo |-> [rp EXCEPT !.remoteCalls = @ \cup {"push"}], err |-> "none"]

\* pull(): the remote holds nothing the local history lacks
pull(cfg, rp) ==
  IF remoteError(cfg, rp) # "none" THEN [repo |-> rp, err |-> remoteError(cfg, rp)]
  ELSE [repo |-> [rp EXCEPT !.remoteCalls = @ \cup {"pull"}], err |-> "none"]

\* ---- the weekly review (commands/review, SAFERBridge) ---------------------
\* `${year}-W${weekNum.toString().padStart(2, '0')}` for the hour t
weekId(t) ==
  <<getFullYear(DayOf(t)), PadStart(Digits(getWeekNumber(DayOf(t))), WeekPadWidth)>>

\* getArchivedItemsThisWeek(): the archived records whose updated timestamp
\* has the week number and the calendar year of now
getArchivedItemsThisWeek(arch, t) ==
  {k \in DOMAIN arch :
     /\ getWeekNumber(DayOf(arch[k].updated)) = getWeekNumber(DayOf(t))
     /\ getFullYear(DayOf(arch[k].updated)) = getFullYear(DayOf(t))}

\* the headings of the five reflection sections, in the order of the artifact
ReflectionHeadings ==
  <<"## What Went Well", "## What Didn't Go Well", "## Blockers",
    "## Key Learnings", "## Adjustments for Next Week">>

\* no reflection given
NoAnswers == [i \in 1..Len(ReflectionHeadings) |-> <<>>]

\* reflectionSections.join('\n\n') as lines: a section for each answer
\* with content, a blank line between two sections
RECURSIVE reflectionSections(_, _)
reflectionSections(answers, i) ==
  IF i > Len(answers) THEN <<>>
  ELSE LET rest == reflectionSections(answers, i + 1)
           section == <<ReflectionHeadings[i], "">> \o answers[i]
       IN IF answers[i] = <<>> THEN rest
          ELSE IF rest = <<>> THEN section
          ELSE section \o <<"">> \o rest

\* the lines of the artifact from the reflections to the footer
reflectionLines(answers) ==
  LET sections == reflectionSections(answers, 1)
  IN (IF sections # <<>> THEN sections
      ELSE <<"## Reflections", "", "_No reflections recorded_">>)
     \o <<"", "---", "_Generated by SAFER_">>

\* the lines at which the capture of extractSection() stops: those that
\* begin with `## ` or with `---`
SectionEnds == Range(ReflectionHeadings) \cup {"## Reflections", "---"}

\* String.trim() on lines: the blank lines at both ends go
trim(lines) ==
  LET inked == {i \in 1..Len(lines) : lines[i] # ""}
  IN IF inked = {} THEN <<>>
     ELSE SubSeq(lines, CHOOSE i \in inked : \A j \in inked : i <= j,
                        CHOOSE i \in inked : \A j \in inked : i >= j)

\* the texts extractSection() takes for a section never filled in
DefaultTexts == {<<"_No reflections recorded_">>, <<"_No response_">>, <<"_None_">>}

\* extractSection(heading) of updateReview(): the lines after the heading
\* and its blank line, up to the line before the first later line that
\* begins with `## ` or `---`, trimmed; empty for a default text
extractSection(lines, heading) ==
  LET heads == {i \in 1..Len(lines) - 1 : lines[i] = heading /\ lines[i + 1] = ""}
  IN IF heads = {} THEN <<>>
     ELSE LET h == CHOOSE i \in heads : \A j \in heads : i <= j
              ends == {j \in h + 3..Len(lines) : lines[j] \in SectionEnds}
              stop == IF ends = {} THEN Len(lines) + 1
                      ELSE CHOOSE j \in ends : \A k \in ends : j <= k
              text == trim(SubSeq(lines, h + 2, stop - 1))
          IN IF text \in DefaultTexts THEN <<>> ELSE text

\* the artifact reviewCommand() writes for the week of now: the completed
\* items of the week and the reflections given
reviewWrite(rev, arch, answers, t) ==
  LET file == [items |-> getArchivedItemsThisWeek(arch, t),
               answers |-> answers,
               lines |-> reflectionLines(answers)]
  IN [w \in DOMAIN rev \cup {weekId(t)} |-> IF w = weekId(t) THEN file ELSE rev[w]]

\* ---- the import paths (commands/import, the offer after archive) ---------
\* GitHubImporter.isConfigured()
isConfigured(gh) == gh.enabled = TRUE /\ gh.client

\* the states of the integration: the client cannot be constructed unless
\* config.github.enabled is set
GitHubStates ==
  {[enabled |-> e, client |-> c] : e \in BOOLEAN, c \in BOOLEAN} \
    {[enabled |-> FALSE, client |-> TRUE]}

\* GitHubImporter.import() with its events: fetchItems() throws without a
\* client; else the fetch, then the reads of the stores and one write for
\* each item imported
importerImport(gh, act, arch, N, cands, fails, t) ==
  IF ~gh.client
  THEN [act |-> act, res |-> [NoResult EXCEPT !.errors = <<"NoClient">>],
        failed |-> {}, events |-> <<>>]
  ELSE LET r == importRun(act, arch, N, cands, fails, t)
       IN [act |-> r.act, res |-> r.res, failed |-> r.failed,
           events |-> <<"fetch">> \o
                      (IF Len(cands) = 0 THEN <<>> ELSE <<"readItems">>) \o
                      [i \in 1..r.res.imported |-> "writeItem"]]

\* the import offered after archive, accepted by the user: checkWipLimit()
\* reads the active store, then import({ limit: 1 }) runs if a slot is free
offeredImport(gh, act, arch, N, cands, t) ==
  LET wipCheck == checkWipLimit(act, N)
      r == importerImport(gh, act, arch, N, SubSeq(cands, 1, Min(Len(cands), 1)), {}, t)
  IN IF wipCheck.currentWip < wipCheck.maxWip
     THEN [act |-> r.act, res |-> r.res, failed |-> r.failed,
           events |-> <<"readItems">> \o r.events]
     ELSE [act |-> act, res |-> NoResult, failed |-> {}, events |-> <<"readItems">>]

\* ---- inputs --------------------------------------------------------------
IdSet(idCap) == {FormatId(n) : n \in 1..idCap}

WipLimits(maxLimit) == MinMaxWIP..maxLimit

RECURSIVE DistinctSeqs(_, _)
DistinctSeqs(S, n) ==
  IF n = 0 THEN {<<>>}
  ELSE LET shorter == DistinctSeqs(S, n - 1)
       IN shorter \cup {Append(s, x) : s \in {q \in shorter : Len(q) = n - 1}, x \in S}

\* the fetched candidate lists: issue numbers, no issue twice
CandidateLists == {s \in DistinctSeqs(1..MaxIssue, MaxFetch) :
                     \A i, j \in 1..Len(s) : i # j => s[i] # s[j]}

\* the record of the last command: its name and arguments, the result of an
\* import, the loop indexes at which a creation threw, the error of the
\* command and the week of a review
\* the fetched candidate lists of the batch specification
BatchLists == {s \in DistinctSeqs(1..MaxBatch, MaxBatch) :
                 \A i, j \in 1..Len(s) : i # j => s[i] # s[j]}

NoLast == [op |-> "none", id |-> <<>>, ret |-> FALSE, cands |-> <<>>, res |-> NoResult,
           failed |-> {}, err |-> "none", week |-> <<>>, events |-> <<>>]

\* config.github enabled and a GitHub client that can be constructed
GitHubReady == [enabled |-> TRUE, client |-> TRUE]

\* the invocations of the command surface that can run at the same time
Procs == 1..MaxProcs

\* an invocation that is not running
IdleProc == [pc |-> "idle", id |-> <<>>, wipSlot |-> 0]

NoProcs == [p \in Procs |-> IdleProc]

\* the faults a command can meet in commit(): none when auto-commit is off,
\* since commit() returns before it calls git
GitFaults(cfg, rp) ==
  IF cfg.autoCommit /\ rp.unreliable THEN GitFaultKinds ELSE {"none"}

\* `await commit(message)` at the end of a command, after its writes
CommitCall(lastRec, message) ==
  \E fault \in GitFaults(gitConfig, repo) :
    LET c == commit(gitConfig, repo, Tree(active', archive', reviews'), message, fault)
    IN /\ repo' = c.repo
       /\ last' = [lastRec EXCEPT !.err = c.err]

\* the catch block of createCommand written as a rollback of the write
createCatchRollback(written, before, err) ==
  IF err \in {"add", "commit"} THEN before ELSE written

\* the catch block of createCommand: it reports and exits, the file stays
createCatch(written, before, err) == written

\* ---- the commands --------------------------------------------------------
\* safer init, then `config set git.autoCommit false`
InitWith(maxLimit) ==
  /\ maxWIP \in WipLimits(maxLimit)
  /\ active = << >>
  /\ archive = << >>
  /\ now = 0
  /\ last = NoLast
  /\ issuedMax = 0
  /\ gitConfig = [DefaultGitConfig EXCEPT !.autoCommit = FALSE]
  /\ github = GitHubReady
  /\ procs = NoProcs
  /\ repo = InitialRepo
  /\ reviews = << >>

\* the clock moves to the first hour of the next month
Tick ==
  /\ Partition(now) < MaxMonth
  /\ now' = MonthStarts[Partition(now) + 1] * HoursPerDay
  /\ last' = [NoLast EXCEPT !.op = "tick"]
  /\ UNCHANGED <<maxWIP, active, archive, issuedMax, gitConfig, github, procs, repo,
                 reviews>>

\* the clock moves on by some hours, up to the hour `horizon`
Advance(hours, horizon) ==
  /\ now + hours <= horizon
  /\ now' = now + hours
  /\ last' = [NoLast EXCEPT !.op = "tick"]
  /\ UNCHANGED <<maxWIP, active, archive, issuedMax, gitConfig, github, procs, repo,
                 reviews>>

\* safer create: refused when checkWipLimit() reports the limit reached
Create(nDod, idCap) ==
  /\ checkWipLimit(active, maxWIP).isWithinLimit
  /\ LET id == generateNextId(active, archive)
         wipSlot == getNextWipSlot(active)
         item == [id |-> id, status |-> "active", wipSlot |-> wipSlot,
                  issues |-> {},
                  dod |-> [i \in 1..nDod |->
                             [id |-> i, completed |-> FALSE, completedAt |-> <<>>]],
                  created |-> now, updated |-> now,
                  cycleTime |-> <<>>, completionRate |-> <<0, 1>>]
     IN /\ IdNumber(id) <= idCap
        /\ \E fault \in GitFaults(gitConfig, repo) :
             LET written == saveItem(active, item, now)
                 c == commit(gitConfig, repo, Tree(written, archive, reviews),
                             <<"Created", id>>, fault)
             IN /\ active' = createCatch(written, active, c.err)
                /\ repo' = c.repo
                /\ last' = [NoLast EXCEPT !.op = "create", !.id = id, !.err = c.err]
        /\ issuedMax' = Max(issuedMax, IdNumber(id))
  /\ UNCHANGED <<maxWIP, archive, now, gitConfig, github, procs, reviews>>

\* safer archive <id>
Archive(id, archCap) ==
  /\ getItem(id, active, archive) # NoItem
  /\ LET item == getItem(id, active, archive)
     IN /\ archive' = archiveWrite(archive, item, now)
        /\ Cardinality(DOMAIN archive') <= archCap
        /\ active' = removeActive(active, item.id)
        /\ UNCHANGED reviews
        /\ CommitCall([NoLast EXCEPT !.op = "archive", !.id = id], <<"Archived", id>>)
  /\ UNCHANGED <<maxWIP, now, issuedMax, gitConfig, github, procs>>

\* safer delete <id>
Delete(id) ==
  /\ getItem(id, active, archive) # NoItem
  /\ active' = deleteItem(active, id).act
  /\ UNCHANGED <<archive, reviews>>
  /\ CommitCall([NoLast EXCEPT !.op = "delete", !.id = id, !.ret = deleteItem(active, id).ret],
                <<"Deleted", id>>)
  /\ UNCHANGED <<maxWIP, now, issuedMax, gitConfig, github, procs>>

\* safer dod <id> --add <text>
DodAdd(id) ==
  /\ getItem(id, active, archive) # NoItem
  /\ LET item == getItem(id, active, archive)
         newDodId == Len(item.dod) + 1
         item2 == [item EXCEPT !.dod = Append(@, [id |-> newDodId,
                                 completed |-> FALSE, completedAt |-> <<>>])]
     IN /\ Len(item.dod) < MaxDod
        /\ active' = saveItem(active, item2, now)
        /\ UNCHANGED <<archive, reviews>>
        /\ CommitCall([NoLast EXCEPT !.op = "dodAdd", !.id = id], <<"Added DoD item to", id>>)
  /\ UNCHANGED <<maxWIP, now, issuedMax, gitConfig, github, procs>>

\* the index of the first DoD entry with the given dod id, 0 if none
findDod(dod, dodId) ==
  LET hits == {i \in 1..Len(dod) : dod[i].id = dodId}
  IN IF hits = {} THEN 0 ELSE CHOOSE i \in hits : \A j \in hits : i <= j

\* dodItem.completed = true; dodItem.completedAt = new Date().toISOString()
\* (a timestamp is <<t>>, null is <<>>)
checkEntry(entry, t) == [entry EXCEPT !.completed = TRUE, !.completedAt = <<t>>]

\* an uncheck that clears the flag and keeps the timestamp
uncheckEntryKeepTime(entry) == [entry EXCEPT !.completed = FALSE]

\* dodItem.completed = false; dodItem.completedAt = null
uncheckEntry(entry) == [entry EXCEPT !.completed = FALSE, !.completedAt = <<>>]

\* safer dod <id> --check <dod-id>
DodCheck(id, dodId) ==
  /\ getItem(id, active, archive) # NoItem
  /\ LET item == getItem(id, active, archive)
         i == findDod(item.dod, dodId)
     IN /\ i # 0
        /\ active' = saveItem(active,
              [item EXCEPT !.dod[i] = checkEntry(@, now)], now)
        /\ UNCHANGED <<archive, reviews>>
        /\ CommitCall([NoLast EXCEPT !.op = "dodCheck", !.id = id],
                      <<"Completed DoD item", dodId, "for", id>>)
  /\ UNCHANGED <<maxWIP, now, issuedMax, gitConfig, github, procs>>

\* safer dod <id> --uncheck <dod-id>
DodUncheck(id, dodId) ==
  /\ getItem(id, active, archive) # NoItem
  /\ LET item == getItem(id, active, archive)
         i == findDod(item.dod, dodId)
     IN /\ i # 0
        /\ active' = saveItem(active,
              [item EXCEPT !.dod[i] = uncheckEntry(@)], now)
        /\ UNCHANGED <<archive, reviews>>
        /\ CommitCall([NoLast EXCEPT !.op = "dodUncheck", !.id = id],
                      <<"Unchecked DoD item", dodId, "for", id>>)
  /\ UNCHANGED <<maxWIP, now, issuedMax, gitConfig, github, procs>>

\* the cycle time with the days rounded down
cycleTimeFloor(created, completed) == (completed - created) \div HoursPerDay

\* Math.ceil((completed.getTime() - created.getTime()) / (1000 * 60 * 60 * 24))
cycleTimeOf(created, completed) == CeilDiv(completed - created, HoursPerDay)

\* dodComplete / Math.max(dodTotal, 1), as numerator and denominator
completionRateOf(dod) ==
  LET dodComplete == Cardinality({i \in 1..Len(dod) : dod[i].completed})
      dodTotal == Len(dod)
  IN <<dodComplete, Max(dodTotal, 1)>>

\* safer complete <id> [--archive], confirmed by the user
Complete(id, withArchive, archCap) ==
  /\ getItem(id, active, archive) # NoItem
  /\ LET item == getItem(id, active, archive)
         done == [item EXCEPT !.status = "completed", !.updated = now,
                              !.cycleTime = <<cycleTimeOf(item.created, now)>>,
                              !.completionRate = completionRateOf(item.dod)]
         lastRec == [NoLast EXCEPT !.op = "complete", !.id = id, !.ret = withArchive]
     IN IF item.status = "completed"
        THEN IF withArchive
             THEN /\ archive' = archiveWrite(archive, item, now)
                  /\ active' = removeActive(active, item.id)
                  /\ UNCHANGED reviews
                  /\ CommitCall(lastRec, <<"Archived", id>>)
             ELSE /\ UNCHANGED <<active, archive, reviews, repo>>
                  /\ last' = lastRec
        ELSE IF withArchive
             THEN /\ archive' = archiveWrite(archive, done, now)
                  /\ active' = removeActive(active, done.id)
                  /\ UNCHANGED reviews
                  /\ CommitCall(lastRec, <<"Completed and archived", id>>)
             ELSE /\ active' = saveItem(active, done, now)
                  /\ UNCHANGED <<archive, reviews>>
                  /\ CommitCall(lastRec, <<"Completed", id>>)
  /\ Cardinality(DOMAIN archive') <= archCap
  /\ UNCHANGED <<maxWIP, now, issuedMax, gitConfig, github, procs>>

\* safer import github (also the import offered after complete and archive)
Import(cands, fails, idCap) ==
  /\ LET r == importRun(active, archive, maxWIP, cands, fails, now)
     IN /\ \A k \in DOMAIN r.act : IdNumber(k) <= idCap
        /\ active' = r.act
        /\ last' = [NoLast EXCEPT !.op = "import", !.cands = cands, !.res = r.res,
                                  !.failed = r.failed]
        /\ issuedMax' = Max(issuedMax, SetMax({IdNumber(r.res.items[i].id) :
                                                 i \in 1..Len(r.res.items)}))
  /\ UNCHANGED <<maxWIP, archive, now, gitConfig, github, procs, repo, reviews>>

\* push(), called on its own
Push ==
  /\ LET r == push(gitConfig, repo)
     IN /\ repo' = r.repo
        /\ last' = [NoLast EXCEPT !.op = "push", !.err = r.err]
  /\ UNCHANGED <<maxWIP, active, archive, now, issuedMax, gitConfig, github, procs,
                 reviews>>

\* pull(), called on its own
Pull ==
  /\ LET r == pull(gitConfig, repo)
     IN /\ repo' = r.repo
        /\ last' = [NoLast EXCEPT !.op = "pull", !.err = r.err]
  /\ UNCHANGED <<maxWIP, active, archive, now, issuedMax, gitConfig, github, procs,
                 reviews>>

\* safer review --yes with the reflections given as options (createReview()
\* of the desktop shell runs the same command)
Review(answers) ==
  /\ reviews' = reviewWrite(reviews, archive, answers, now)
  /\ last' = [NoLast EXCEPT !.op = "review", !.week = weekId(now)]
  /\ UNCHANGED <<maxWIP, active, archive, now, issuedMax, gitConfig, github, procs, repo>>

\* SAFERBridge.updateReview(weekId): the reflections are read from the
\* artifact of weekId, then createReview() runs the review command
UpdateReview(week) ==
  /\ LET answers ==
           IF week \in DOMAIN reviews
           THEN [i \in 1..Len(ReflectionHeadings) |->
                   extractSection(reviews[week].lines, ReflectionHeadings[i])]
           ELSE NoAnswers
     IN reviews' = reviewWrite(reviews, archive, answers, now)
  /\ last' = [NoLast EXCEPT !.op = "updateReview", !.week = week]
  /\ UNCHANGED <<maxWIP, active, archive, now, issuedMax, gitConfig, github, procs, repo>>

\* safer import github: isConfigured() first, then import()
ImportCommand(cands, fails, idCap) ==
  /\ \E r \in {importerImport(github, active, archive, maxWIP, cands, fails, now)} :
        IF ~isConfigured(github)
        THEN /\ UNCHANGED <<active, issuedMax>>
             /\ last' = [NoLast EXCEPT !.op = "importCommand",
                                       !.events = <<"isConfigured">>]
        ELSE /\ \A k \in DOMAIN r.act : IdNumber(k) <= idCap
             /\ active' = r.act
             /\ last' = [NoLast EXCEPT !.op = "importCommand", !.cands = cands,
                                       !.res = r.res, !.failed = r.failed,
                                       !.events = <<"isConfigured">> \o r.events]
             /\ issuedMax' = Max(issuedMax, SetMax({IdNumber(r.res.items[i].id) :
                                                      i \in 1..Len(r.res.items)}))
  /\ UNCHANGED <<maxWIP, archive, now, gitConfig, github, procs, repo, reviews>>

\* safer archive <id> with config.github.enabled set and the offered import
\* accepted; the events are those after the archive and its commit
ArchiveOffer(id, cands, archCap, idCap) ==
  /\ getItem(id, active, archive) # NoItem
  /\ github.enabled = TRUE
  /\ LET item == getItem(id, active, archive)
         archived == archiveWrite(archive, item, now)
         removed == removeActive(active, item.id)
     IN \E fault \in GitFaults(gitConfig, repo) :
          \E c \in {commit(gitConfig, repo, Tree(removed, archived, reviews),
                          <<"Archived", id>>, fault)} :
          \E o \in {IF c.err = "none"
                   THEN offeredImport(github, removed, archived, maxWIP, cands, now)
                   ELSE [act |-> removed, res |-> NoResult, failed |-> {},
                         events |-> <<>>]} :
             /\ archive' = archived
             /\ Cardinality(DOMAIN archive') <= archCap
             /\ \A k \in DOMAIN o.act : IdNumber(k) <= idCap
             /\ active' = o.act
             /\ repo' = c.repo
             /\ last' = [NoLast EXCEPT !.op = "archiveOffer", !.id = id,
                                       !.cands = cands, !.res = o.res,
                                       !.err = c.err, !.events = o.events]
             /\ issuedMax' = Max(issuedMax, SetMax({IdNumber(o.res.items[i].id) :
                                                      i \in 1..Len(o.res.items)}))
  /\ UNCHANGED <<maxWIP, now, gitConfig, github, procs, reviews>>

\* ---- commands as steps of concurrent invocations --------------------------
\* the id and slot a create writes, read again at the time of the write
createTargetFresh(proc, act, arch) ==
  [id |-> generateNextId(act, arch), wipSlot |-> getNextWipSlot(act)]

\* the id and slot a create writes: those it drew before it built the item
createTarget(proc, act, arch) == [id |-> proc.id, wipSlot |-> proc.wipSlot]

\* an archiveItem() that unlinks the active file first
archiveFirstStepUnlink(act, arch, item, t) ==
  [act |-> removeActive(act, item.id), arch |-> arch]

\* archiveItem(item) up to its writeFileSync: the archived record is written,
\* the active file is still there
archiveFirstStep(act, arch, item, t) ==
  [act |-> act, arch |-> archiveWrite(arch, item, t)]

\* createCommand, the WIP check at its start
CreateCheck(p) ==
  /\ procs[p].pc = "idle"
  /\ checkWipLimit(active, maxWIP).isWithinLimit
  /\ procs' = [procs EXCEPT ![p].pc = "checked"]
  /\ last' = [NoLast EXCEPT !.op = "createCheck"]
  /\ UNCHANGED <<maxWIP, active, archive, now, issuedMax, gitConfig, github, repo,
                 reviews>>

\* createCommand after the prompts: generateNextId() and getNextWipSlot()
CreateDraw(p, idCap) ==
  /\ procs[p].pc = "checked"
  /\ IdNumber(generateNextId(active, archive)) <= idCap
  /\ procs' = [procs EXCEPT ![p] = [pc |-> "drawn",
                                    id |-> generateNextId(active, archive),
                                    wipSlot |-> getNextWipSlot(active)]]
  /\ last' = [NoLast EXCEPT !.op = "createDraw"]
  /\ UNCHANGED <<maxWIP, active, archive, now, issuedMax, gitConfig, github, repo,
                 reviews>>

\* createCommand, saveItem(item) and the commit; ret tells whether a file of
\* that id was there already
CreateSave(p) ==
  /\ procs[p].pc = "drawn"
  /\ LET target == createTarget(procs[p], active, archive)
         item == [id |-> target.id, status |-> "active", wipSlot |-> target.wipSlot,
                  issues |-> {}, dod |-> <<>>,
                  created |-> now, updated |-> now,
                  cycleTime |-> <<>>, completionRate |-> <<0, 1>>]
     IN /\ \E fault \in GitFaults(gitConfig, repo) :
             LET written == saveItem(active, item, now)
                 c == commit(gitConfig, repo, Tree(written, archive, reviews),
                             <<"Created", target.id>>, fault)
             IN /\ active' = createCatch(written, active, c.err)
                /\ repo' = c.repo
                /\ last' = [NoLast EXCEPT !.op = "create", !.id = target.id,
                                          !.ret = (target.id \in DOMAIN active),
                                          !.err = c.err]
        /\ issuedMax' = Max(issuedMax, IdNumber(target.id))
  /\ procs' = [procs EXCEPT ![p] = IdleProc]
  /\ UNCHANGED <<maxWIP, archive, now, gitConfig, github, reviews>>

\* safer archive <id> up to the write of the archived record
ArchiveBegin(p, id, archCap) ==
  /\ procs[p].pc = "idle"
  /\ getItem(id, active, archive) # NoItem
  /\ LET item == getItem(id, active, archive)
         step == archiveFirstStep(active, archive, item, now)
     IN /\ active' = step.act
        /\ archive' = step.arch
        /\ Cardinality(DOMAIN archive') <= archCap
        /\ procs' = [procs EXCEPT ![p] = [pc |-> "archiving", id |-> item.id,
                                          wipSlot |-> item.wipSlot]]
  /\ last' = [NoLast EXCEPT !.op = "archiveWrite", !.id = id]
  /\ UNCHANGED <<maxWIP, now, issuedMax, gitConfig, github, repo, reviews>>

\* safer archive <id> from the removal of the active file to the commit
ArchiveFinish(p) ==
  /\ procs[p].pc = "archiving"
  /\ active' = removeActive(active, procs[p].id)
  /\ procs' = [procs EXCEPT ![p] = IdleProc]
  /\ UNCHANGED <<archive, reviews>>
  /\ CommitCall([NoLast EXCEPT !.op = "archive", !.id = procs[p].id],
                <<"Archived", procs[p].id>>)
  /\ UNCHANGED <<maxWIP, now, issuedMax, gitConfig, github>>

\* an invocation dies where it stands; ret tells whether it was archiving
Crash(p) ==
  /\ procs[p].pc # "idle"
  /\ procs' = [procs EXCEPT ![p] = IdleProc]
  /\ last' = [NoLast EXCEPT !.op = "crash", !.id = procs[p].id,
                            !.ret = (procs[p].pc = "archiving")]
  /\ UNCHANGED <<maxWIP, active, archive, now, issuedMax, gitConfig, github, repo,
                 reviews>>

\* ---- specifications ------------------------------------------------------
\* the repository alone: create, archive and delete over several months
InitCAD == InitWith(MaxLimit)

NextCAD ==
  \/ Tick
  \/ Create(0, MaxIdRepo)
  \/ \E id \in IdSet(MaxIdRepo) : Archive(id, MaxArchived)
  \/ \E id \in IdSet(MaxIdRepo) : Delete(id)

SpecCAD == InitCAD /\ [][NextCAD]_vars

\* the repository and the importer within one month
InitCIAD == InitWith(MaxLimitImp)

NextCIAD ==
  \/ Create(0, MaxIdImp)
  \/ \E id \in IdSet(MaxIdImp) : Archive(id, MaxArchivedImp)
  \/ \E id \in IdSet(MaxIdImp) : Delete(id)
  \/ \E cands \in CandidateLists : \E fails \in SUBSET (1..Len(cands)) :
        Import(cands, fails, MaxIdImp)

SpecCIAD == InitCIAD /\ [][NextCIAD]_vars

\* the importer run in batches of up to MaxBatch issues
NextBatch ==
  \/ \E id \in IdSet(MaxIdImp) : Delete(id)
  \/ \E cands \in BatchLists : \E fails \in SUBSET (1..Len(cands)) :
        Import(cands, fails, MaxIdImp)

SpecBatch == InitCIAD /\ [][NextBatch]_vars

\* the commands over the git working tree, auto-commit on or off, git
\* reliable or not
InitGit ==
  /\ maxWIP = DefaultMaxWIP
  /\ active = << >>
  /\ archive = << >>
  /\ now = 0
  /\ last = NoLast
  /\ issuedMax = 0
  /\ gitConfig \in {[DefaultGitConfig EXCEPT !.autoCommit = a] : a \in BOOLEAN}
  /\ github = GitHubReady
  /\ procs = NoProcs
  /\ repo \in {[InitialRepo EXCEPT !.unreliable = u] : u \in BOOLEAN}
  /\ reviews = << >>

\* the history holds at most MaxCommits commits of commands
HistoryOpen == Len(repo.history) <= MaxCommits

NextGit ==
  \/ HistoryOpen /\ Create(0, MaxIdGit)
  \/ \E id \in IdSet(MaxIdGit) : HistoryOpen /\ Archive(id, MaxArchivedImp)
  \/ \E id \in IdSet(MaxIdGit) : HistoryOpen /\ Delete(id)
  \/ HistoryOpen /\ Import(<<1>>, {}, MaxIdGit)

SpecGit == InitGit /\ [][NextGit]_vars

\* the commands and the remote: remote sync on or off, the remote `origin`
\* added or not
InitSync ==
  /\ maxWIP = DefaultMaxWIP
  /\ active = << >>
  /\ archive = << >>
  /\ now = 0
  /\ last = NoLast
  /\ issuedMax = 0
  /\ gitConfig \in {[DefaultGitConfig EXCEPT !.remoteSync = s] : s \in BOOLEAN}
  /\ github = GitHubReady
  /\ procs = NoProcs
  /\ repo \in {[InitialRepo EXCEPT !.remotes = r] : r \in {{}, {"origin"}}}
  /\ reviews = << >>

NextSync ==
  \/ HistoryOpen /\ Create(0, MaxIdNum)
  \/ \E id \in IdSet(MaxIdNum) : HistoryOpen /\ Archive(id, MaxArchivedImp)
  \/ \E id \in IdSet(MaxIdNum) : HistoryOpen /\ Delete(id)
  \/ HistoryOpen /\ Import(<<1>>, {}, MaxIdNum)
  \/ HistoryOpen /\ Push
  \/ HistoryOpen /\ Pull

SpecSync == InitSync /\ [][NextSync]_vars

\* the weekly review over the turn of the year: the clock starts on Monday
\* 29 December 2025 and moves by three days or by a week
InitReview == InitWith(MaxIdDone)

ReviewSteps == {HardCodedSlots * HoursPerDay, DaysPerWeek * HoursPerDay}

\* the reflections entered: none, one section, every section, and a text
\* that holds a horizontal rule
ReviewAnswers ==
  {NoAnswers,
   [NoAnswers EXCEPT ![1] = <<"text">>],
   [i \in 1..Len(ReflectionHeadings) |-> <<"text">>],
   [NoAnswers EXCEPT ![3] = <<"text", "---", "text">>]}

\* the week ids of the days up to MaxReviewDay
WeekIds == {weekId(d * HoursPerDay) : d \in 0..MaxReviewDay}

NextReview ==
  \/ Create(0, MaxIdNum)
  \/ \E id \in IdSet(MaxIdNum) : Archive(id, MaxArchived)
  \/ \E h \in ReviewSteps : Advance(h, MaxReviewDay * HoursPerDay)
  \/ \E answers \in ReviewAnswers : Review(answers)
  \/ \E week \in WeekIds : UpdateReview(week)

SpecReview == InitReview /\ [][NextReview]_vars

\* the import paths with the integration disabled, enabled without a client,
\* and ready
InitOffer ==
  /\ maxWIP \in WipLimits(MaxIdNum)
  /\ active = << >>
  /\ archive = << >>
  /\ now = 0
  /\ last = NoLast
  /\ issuedMax = 0
  /\ gitConfig = [DefaultGitConfig EXCEPT !.autoCommit = FALSE]
  /\ repo = InitialRepo
  /\ reviews = << >>
  /\ github \in GitHubStates
  /\ procs = NoProcs

NextOffer ==
  \/ Create(0, MaxIdNum)
  \/ \E id \in IdSet(MaxIdNum) : Delete(id)
  \/ \E cands \in CandidateLists : ImportCommand(cands, {}, MaxIdNum)
  \/ \E id \in IdSet(MaxIdNum), cands \in CandidateLists :
       ArchiveOffer(id, cands, MaxArchivedImp, MaxIdNum)

SpecOffer == InitOffer /\ [][NextOffer]_vars

\* invocations that interleave and crash: create in three steps, archive in
\* two, delete in one
InitProc == InitWith(MaxIdNum)

NextProc ==
  \/ \E p \in Procs : CreateCheck(p)
  \/ \E p \in Procs : CreateDraw(p, MaxIdNum)
  \/ \E p \in Procs : CreateSave(p)
  \/ \E p \in Procs, id \in IdSet(MaxIdNum) : ArchiveBegin(p, id, MaxArchivedImp)
  \/ \E p \in Procs : ArchiveFinish(p)
  \/ \E p \in Procs : Crash(p)
  \/ \E id \in IdSet(MaxIdNum) : Delete(id)

SpecProc == InitProc /\ [][NextProc]_vars

\* every command within one month
Init == InitWith(MaxIdNum)

Next ==
  \/ \E n \in 0..MaxDod : Create(n, MaxIdNum)
  \/ \E id \in IdSet(MaxIdNum) : DodAdd(id)
  \/ \E id \in IdSet(MaxIdNum), d \in 1..MaxDod : DodCheck(id, d)
  \/ \E id \in IdSet(MaxIdNum), d \in 1..MaxDod : DodUncheck(id, d)
  \/ \E id \in IdSet(MaxIdNum), a \in BOOLEAN : Complete(id, a, MaxArchivedImp)
  \/ \E id \in IdSet(MaxIdNum) : Archive(id, MaxArchivedImp)
  \/ \E id \in IdSet(MaxIdNum) : Delete(id)
  \/ \E cands \in CandidateLists : \E fails \in SUBSET (1..Len(cands)) :
        Import(cands, fails, MaxIdNum)

Spec == Init /\ [][Next]_vars

\* completion of items of different ages and checklists: the clock moves by
\* a day or by an hour less than a day
InitDone == InitWith(MaxIdDone)

ClockSteps == {HoursPerDay - 1, HoursPerDay}

NextDone ==
  \/ \E n \in 0..MaxDodDone : Create(n, MaxIdDone)
  \/ \E id \in IdSet(MaxIdDone), d \in 1..MaxDodDone : DodCheck(id, d)
  \/ \E id \in IdSet(MaxIdDone), d \in 1..MaxDodDone : DodUncheck(id, d)
  \/ \E h \in ClockSteps : Advance(h, MaxDaysDone * HoursPerDay)
  \/ \E id \in IdSet(MaxIdDone), a \in BOOLEAN : Complete(id, a, MaxArchivedImp)
  \/ \E id \in IdSet(MaxIdDone) : Delete(id)

SpecDone == InitDone /\ [][NextDone]_vars

\* items that are completed and stay active while new items arrive by
\* create and by import
InitHold == InitWith(MaxLimit)

NextHold ==
  \/ Create(0, MaxIdRepo)
  \/ \E id \in IdSet(MaxIdRepo), a \in BOOLEAN : Complete(id, a, MaxArchivedImp)
  \/ \E id \in IdSet(MaxIdRepo) : Delete(id)
  \/ Import(<<1>>, {}, MaxIdRepo)

SpecHold == InitHold /\ [][NextHold]_vars

\* the item commands without the importer
NextItems ==
  \/ \E n \in 0..MaxDod : Create(n, MaxIdNum)
  \/ \E id \in IdSet(MaxIdNum) : DodAdd(id)
  \/ \E id \in IdSet(MaxIdNum), d \in 1..MaxDod : DodCheck(id, d)
  \/ \E id \in IdSet(MaxIdNum), d \in 1..MaxDod : DodUncheck(id, d)
  \/ \E id \in IdSet(MaxIdNum), a \in BOOLEAN : Complete(id, a, MaxArchivedImp)
  \/ \E id \in IdSet(MaxIdNum) : Archive(id, MaxArchivedImp)
  \/ \E id \in IdSet(MaxIdNum) : Delete(id)

SpecItems == Init /\ [][NextItems]_vars

\* ---- properties ----------------------------------------------------------
ActiveCount == Cardinality(DOMAIN active)

ArchiveKeysOf(id) == {k \in DOMAIN archive : k[2] = id}

\* the issue numbers linked on the records of the two stores
LinkedIssues(act, arch) ==
  UNION ({act[k].issues : k \in DOMAIN act} \cup {arch[k].issues : k \in DOMAIN arch})

\* the candidates of a fetch that no record links yet
NonDuplicates(cands, act, arch) ==
  {i \in 1..Len(cands) : cands[i] \notin LinkedIssues(act, arch)}

\* the slots of 1..N no active record holds
FreeSlots(act, N) == {s \in 1..N : \A k \in DOMAIN act : act[k].wipSlot # s}

\* the k-th smallest member of a set of numbers (0 if there is none)
KthSmallest(S, k) ==
  IF \E x \in S : Cardinality({y \in S : y <= x}) = k
  THEN CHOOSE x \in S : Cardinality({y \in S : y <= x}) = k
  ELSE 0

\* the records an import step wrote
WrittenKeys(act, actNext) ==
  {k \in DOMAIN actNext : k \notin DOMAIN act \/ actNext[k] # act[k]}

\* C1: with create guarded by checkWipLimit(), the active store never holds
\* more than maxWIP records, whatever creates, archives and deletes ran
C1_ActiveWithinLimit == ActiveCount <= maxWIP

\* a create filled the last free place after an archive had freed one
C1_Witness ==
  /\ last.op = "create"
  /\ ActiveCount = maxWIP
  /\ maxWIP >= 2
  /\ DOMAIN archive # {}

\* C2: the WIP slots of the active records are pairwise distinct and lie in
\* 1..maxWIP
C2_SlotsDistinctInRange ==
  /\ \A k \in DOMAIN active : active[k].wipSlot \in 1..maxWIP
  /\ \A k1, k2 \in DOMAIN active : k1 # k2 => active[k1].wipSlot # active[k2].wipSlot

\* C3: no two records of the active store and the archive share an id
C3_IdsUnique ==
  /\ \A k \in DOMAIN active : ArchiveKeysOf(active[k].id) = {}
  /\ \A k1, k2 \in DOMAIN archive : k1 # k2 => archive[k1].id # archive[k2].id

\* C4: the number of the id a create issues is greater than the number of
\* every id issued before
C4_IdsStrictlyIncreasing ==
  [][last'.op = "create" => IdNumber(last'.id) > issuedMax]_vars

\* C5: between commands no id has a record in the active store and in the
\* archive at once
C5_ExactlyOneStore ==
  \A k \in DOMAIN active : ArchiveKeysOf(k) = {}

\* C6: after archive(item) the id has no active record and exactly one
\* archived record, of status archived, which get(id) returns
C6_ArchivedExactlyOnce ==
  last.op = "archive" =>
    /\ last.id \notin DOMAIN active
    /\ Cardinality(ArchiveKeysOf(last.id)) = 1
    /\ \A k \in ArchiveKeysOf(last.id) :
         /\ archive[k].status = "archived"
         /\ getItem(last.id, active, archive) = archive[k]

\* C7: an import writes no record for an issue that a record of either store
\* linked when the import began, and counts every such candidate as skipped
C7_NoReimport ==
  [][last'.op = "import" =>
       /\ \A k \in WrittenKeys(active, active') :
            active'[k].issues \cap LinkedIssues(active, archive) = {}
       /\ last'.res.skipped >=
            Len(last'.cands) - Cardinality(NonDuplicates(last'.cands, active, archive))
       /\ archive' = archive]_vars

\* an import skipped a candidate whose earlier import sits in the archive and
\* created an item for another candidate
C7_Witness ==
  /\ last.op = "import"
  /\ last.res.imported >= 1
  /\ \E i \in 1..Len(last.cands) :
       /\ \E k \in DOMAIN archive : last.cands[i] \in archive[k].issues
       /\ \A k \in DOMAIN active : last.cands[i] \notin active[k].issues

\* C8: an import creates at most min(non-duplicate candidates, maxWIP minus
\* active count) items, and does not push the active count over maxWIP
C8_ImportWithinHeadroom ==
  [][last'.op = "import" =>
       /\ last'.res.imported <=
            Min(Cardinality(NonDuplicates(last'.cands, active, archive)),
                maxWIP - ActiveCount)
       /\ Cardinality(WrittenKeys(active, active')) = last'.res.imported
       /\ (ActiveCount <= maxWIP => Cardinality(DOMAIN active') <= maxWIP)]_vars

\* C9: an import with a non-duplicate candidate and no headroom fails with the
\* WIP-limit error, imports nothing and leaves both stores as they were
C9_NoHeadroomFails ==
  [][(/\ last'.op = "import"
      /\ NonDuplicates(last'.cands, active, archive) # {}
      /\ maxWIP - ActiveCount = 0) =>
       /\ last'.res.success = FALSE
       /\ last'.res.imported = 0
       /\ last'.res.items = <<>>
       /\ "WipLimit" \in Range(last'.res.errors)
       /\ active' = active
       /\ archive' = archive]_vars

\* limit 3, slots 1, 2 and 3 held, an import of new issues refused
C9_Witness ==
  /\ last.op = "import"
  /\ maxWIP = 3
  /\ {active[k].wipSlot : k \in DOMAIN active} = {1, 2, 3}
  /\ Cardinality(NonDuplicates(last.cands, active, archive)) = MaxFetch
  /\ last.res.errors = <<"WipLimit">>
  /\ last.res.imported = 0

\* C10 as stated: the k-th item an import created holds the k-th smallest
\* slot of 1..maxWIP that was free when the import began
C10_KthImportedKthFree ==
  [][last'.op = "import" =>
       \A k \in 1..Len(last'.res.items) :
         last'.res.items[k].wipSlot = KthSmallest(FreeSlots(active, maxWIP), k)]_vars

\* the position of an issue among the non-duplicate candidates
CandidateRank(cands, act, arch, issue) ==
  Cardinality({i \in NonDuplicates(cands, act, arch) :
                 \E j \in 1..Len(cands) : cands[j] = issue /\ i <= j})

\* C10 amended: the item created for the k-th non-duplicate candidate holds
\* the k-th smallest free slot, whether or not earlier creations failed
C10_KthCandidateKthFree ==
  [][last'.op = "import" =>
       \A n \in 1..Len(last'.res.items) :
         \E issue \in last'.res.items[n].issues :
           last'.res.items[n].wipSlot =
             KthSmallest(FreeSlots(active, maxWIP),
                         CandidateRank(last'.cands, active, archive, issue))]_vars

\* limit 3, one item in slot 2, two issues imported into slots 1 and 3
C10_Witness ==
  /\ last.op = "import"
  /\ maxWIP = 3
  /\ last.res.imported = 2
  /\ Len(last.res.items) = 2
  /\ last.res.items[1].wipSlot = 1
  /\ last.res.items[2].wipSlot = 3
  /\ \E k \in DOMAIN active : active[k].wipSlot = 2 /\ active[k].issues = {}

\* C11: the items one import creates have pairwise distinct ids, each id
\* greater than the ids given earlier in the batch, and every item is on
\* disk under its id, also when a creation of the batch failed
C11_BatchIdsDistinct ==
  [][last'.op = "import" =>
       LET items == last'.res.items
       IN /\ \A i, j \in 1..Len(items) : i # j => items[i].id # items[j].id
          /\ \A i, j \in 1..Len(items) :
               i < j => IdNumber(items[i].id) < IdNumber(items[j].id)
          /\ \A i \in 1..Len(items) :
               /\ items[i].id \in DOMAIN active'
               /\ active'[items[i].id] = items[i]
               /\ items[i].id \notin DOMAIN active]_vars

\* an import whose first creation failed created two items
C11_Witness ==
  /\ last.op = "import"
  /\ 1 \in last.failed
  /\ Len(last.res.items) = 2
  /\ last.res.items[1].id # last.res.items[2].id
  /\ {last.res.items[1].id, last.res.items[2].id} \subseteq DOMAIN active

\* the number of entries of a list that equal a value
CountOf(seq, x) == Cardinality({i \in 1..Len(seq) : seq[i] = x})

\* the issue of the r-th non-duplicate candidate
NewCandidate(cands, act, arch, r) ==
  cands[KthSmallest(NonDuplicates(cands, act, arch), r)]

\* C12: when creations of the batch loop fail, each failure is recorded in
\* errors and adds one to skipped, every other candidate within the cap is
\* created in order, and all created items are on disk and counted
C12_PartialFailure ==
  [][(last'.op = "import" /\ last'.failed # {}) =>
       LET cands == last'.cands
           res == last'.res
           nonDup == Cardinality(NonDuplicates(cands, active, archive))
           cap == Min(nonDup, maxWIP - ActiveCount)
           nFailed == Cardinality(last'.failed)
           done == (1..cap) \ last'.failed
       IN /\ CountOf(res.errors, "Failed") = nFailed
          /\ res.skipped = (Len(cands) - nonDup) + nFailed + (nonDup - cap)
          /\ res.imported = cap - nFailed
          /\ Len(res.items) = res.imported
          /\ \A n \in 1..Len(res.items) :
               /\ res.items[n].issues =
                    {NewCandidate(cands, active, archive, KthSmallest(done, n))}
               /\ res.items[n].id \in DOMAIN active'
               /\ active'[res.items[n].id] = res.items[n]]_vars

\* the second of three creations failed, the first and the third item exist
C12_Witness ==
  /\ last.op = "import"
  /\ last.failed = {2}
  /\ last.res.imported = 2
  /\ last.res.skipped = 1
  /\ CountOf(last.res.errors, "Failed") = 1
  /\ \A n \in 1..2 : last.res.items[n].id \in DOMAIN active

\* the data directory as it is on disk
WorkingTree == Tree(active, archive, reviews)

\* the commands that write data files
MutatingOps == {"create", "dodAdd", "dodCheck", "dodUncheck", "complete",
                "archive", "delete", "import", "review"}

\* C13: with auto-commit on and git working, a command that writes data
\* files returns with nothing uncommitted: the data directory equals the
\* content of the last commit
C13_NothingUncommitted ==
  (gitConfig.autoCommit /\ ~repo.unreliable /\ last.op \in MutatingOps) =>
    WorkingTree = repo.head

\* C14: when the commit of a command fails, or the process crashes before
\* it, the write of the command stays on disk and neither the history nor
\* the last commit changes
C14_WriteSurvivesFailedCommit ==
  [][last'.err \in {"add", "commit", "crash"} =>
       /\ repo'.history = repo.history
       /\ repo'.head = repo.head
       /\ last'.op = "create" =>
            /\ last'.id \notin DOMAIN active
            /\ last'.id \in DOMAIN active'
            /\ active'[last'.id].status = "active"
            /\ archive' = archive
       /\ last'.op = "archive" =>
            /\ last'.id \notin DOMAIN active'
            /\ <<Partition(now), last'.id>> \in DOMAIN archive'
            /\ archive'[<<Partition(now), last'.id>>].status = "archived"
       /\ last'.op = "delete" =>
            /\ last'.id \notin DOMAIN active'
            /\ archive' = archive]_vars

\* the commit of a create failed after staging: the item is on disk, the
\* history holds the initial commit only
C14_Witness ==
  /\ last.op = "create"
  /\ last.err = "commit"
  /\ last.id \in DOMAIN active
  /\ Len(repo.history) = 1
  /\ repo.index = WorkingTree
  /\ repo.head # WorkingTree

\* C17: no command but push and pull reaches the remote; push and pull fail
\* with SyncDisabled when remote sync is off and with RemoteNotConfigured
\* when the configured remote is missing, and leave the repository and the
\* remote untouched in both cases
C17_RemoteOnlyExplicit ==
  [][/\ last'.op \notin {"push", "pull"} => repo'.remoteCalls = repo.remoteCalls
     /\ last'.op \in {"push", "pull"} =>
          /\ ~gitConfig.remoteSync =>
               (last'.err = "SyncDisabled" /\ repo' = repo)
          /\ (gitConfig.remoteSync /\ gitConfig.remoteName \notin repo.remotes) =>
               (last'.err = "RemoteNotConfigured" /\ repo' = repo)]_vars

\* commands have committed, the remote exists, sync is off: a push was
\* refused and the remote was never reached
C17_Witness ==
  /\ last.op = "push"
  /\ last.err = "SyncDisabled"
  /\ gitConfig.remoteName \in repo.remotes
  /\ Len(repo.history) > 1
  /\ repo.remoteCalls = {}

\* a list starts with another list
StartsWith(seq, prefix) ==
  Len(seq) >= Len(prefix) /\ SubSeq(seq, 1, Len(prefix)) = prefix

\* the commands that end with a call of commit()
CommittingOps == {"create", "dodAdd", "dodCheck", "dodUncheck", "archive", "delete"}

\* C18: commit() changes neither the history nor the staging area and
\* raises no error when auto-commit is off or the data directory has no
\* changes; otherwise it adds exactly one commit, of the whole data
\* directory, whose message starts with the configured prefix
C18_CommitNoOpOrOne ==
  [][last'.op \in CommittingOps =>
       LET tree == Tree(active', archive', reviews')
           clean == repo.index = repo.head /\ tree = repo.head
       IN /\ (~gitConfig.autoCommit \/ clean) =>
               (repo' = repo /\ last'.err \in {"none", "crash"})
          /\ (gitConfig.autoCommit /\ ~clean /\ last'.err = "none") =>
               /\ Len(repo'.history) = Len(repo.history) + 1
               /\ SubSeq(repo'.history, 1, Len(repo.history)) = repo.history
               /\ StartsWith(repo'.history[Len(repo'.history)], gitConfig.commitPrefix)
               /\ repo'.head = tree
               /\ repo'.index = tree]_vars

\* a create was committed under the prefix, as the one commit after the
\* initial commit
C18_Witness ==
  /\ last.op = "create"
  /\ last.err = "none"
  /\ gitConfig.autoCommit
  /\ Len(repo.history) = 2
  /\ StartsWith(repo.history[2], gitConfig.commitPrefix)
  /\ repo.head = WorkingTree
  /\ repo.index = WorkingTree
  /\ last.id \in DOMAIN active

\* C19: an import that fetched candidates, all of them linked already,
\* succeeds with imported = 0, skipped = the number of candidates and the
\* note, and writes nothing, whether or not the WIP limit is reached
C19_AllDuplicatesSucceeds ==
  [][(/\ last'.op = "import"
      /\ Len(last'.cands) > 0
      /\ NonDuplicates(last'.cands, active, archive) = {}) =>
       /\ last'.res.success = TRUE
       /\ last'.res.imported = 0
       /\ last'.res.skipped = Len(last'.cands)
       /\ last'.res.items = <<>>
       /\ last'.res.errors = <<"AllImported">>
       /\ active' = active
       /\ archive' = archive]_vars

\* the limit is reached and every fetched issue is linked, one of them in
\* the archive: the import succeeded with everything skipped
C19_Witness ==
  /\ last.op = "import"
  /\ last.res.success
  /\ last.res.imported = 0
  /\ last.res.skipped = MaxFetch
  /\ Len(last.cands) = MaxFetch
  /\ ActiveCount = maxWIP
  /\ \E k \in DOMAIN archive : archive[k].issues \cap Range(last.cands) # {}

\* the record a completion wrote: in the archive when combined with archival
CompletedRecord(id, archived, act, arch, t) ==
  IF archived THEN arch[<<Partition(t), id>>] ELSE act[id]

\* C20: completing an active item with T DoD entries, C of them completed,
\* sets status = completed (archived when archival is combined), the
\* completion rate C/T (0 when T = 0) and the cycle time to the least number
\* of whole days that covers the time since creation
C20_CompletionMetrics ==
  [][\A id \in IdSet(MaxIdNum) :
       (/\ last'.op = "complete"
        /\ last'.id = id
        /\ id \in DOMAIN active
        /\ active[id].status = "active") =>
         LET before == active[id]
             after == CompletedRecord(id, last'.ret, active', archive', now)
             T == Len(before.dod)
             C == Cardinality({i \in 1..T : before.dod[i].completed})
             age == now - before.created
             rate == after.completionRate
         IN /\ after.status = IF last'.ret THEN "archived" ELSE "completed"
            /\ rate[2] > 0
            /\ IF T = 0 THEN rate[1] = 0 ELSE rate[1] * T = C * rate[2]
            /\ Len(after.cycleTime) = 1
            /\ after.cycleTime[1] * HoursPerDay >= age
            /\ (after.cycleTime[1] - 1) * HoursPerDay < age
            /\ after.dod = before.dod]_vars

\* an item with two DoD entries, one of them completed, was completed a day
\* and an hour less than a day after its creation: rate 1/2, two days
C20_Witness ==
  /\ last.op = "complete"
  /\ last.ret = FALSE
  /\ last.id \in DOMAIN active
  /\ LET item == active[last.id]
     IN /\ item.status = "completed"
        /\ Len(item.dod) = 2
        /\ Cardinality({i \in 1..2 : item.dod[i].completed}) = 1
        /\ item.completionRate[1] * 2 = item.completionRate[2]
        /\ item.updated - item.created = 2 * HoursPerDay - 1
        /\ item.cycleTime = <<2>>

\* the week of an hour, counted in whole weeks from Monday 29 December 2025
WeekIndex(t) == DayOf(t) \div DaysPerWeek

\* C15: updateReview(W) for a week W that has an artifact keeps every
\* reflection of W that held text, refreshes the completed items of W, and
\* neither creates nor changes the artifact of another week
C15_UpdateKeepsReflections ==
  [][\A week \in WeekIds :
       (/\ last'.op = "updateReview"
        /\ last'.week = week
        /\ week \in DOMAIN reviews) =>
         /\ week \in DOMAIN reviews'
         /\ \A i \in 1..Len(ReflectionHeadings) :
              reviews[week].answers[i] # <<>> =>
                reviews'[week].answers[i] = reviews[week].answers[i]
         /\ \A other \in DOMAIN reviews' \ {week} :
              other \in DOMAIN reviews /\ reviews'[other] = reviews[other]]_vars

\* C16: the artifact a review writes lists under Completed Items exactly
\* the archived items whose updated timestamp lies in the week of the review
C16_ListsExactlyWeek ==
  [][last'.op = "review" =>
       reviews'[last'.week].items =
         {k \in DOMAIN archive : WeekIndex(archive[k].updated) = WeekIndex(now)}]_vars

\* C22: delete(id) removes the active record of id and no other, returns
\* true exactly when there was one, and leaves the archive as it was
C22_DeleteActiveOnly ==
  [][\A id \in IdSet(MaxIdRepo) :
       (last'.op = "delete" /\ last'.id = id) =>
         /\ last'.ret = (id \in DOMAIN active)
         /\ DOMAIN active' = DOMAIN active \ {id}
         /\ \A k \in DOMAIN active' : active'[k] = active[k]
         /\ archive' = archive]_vars

\* an id that exists only in the archive was deleted while another item was
\* active: false was returned and both stores are as before
C22_Witness ==
  /\ last.op = "delete"
  /\ last.ret = FALSE
  /\ last.id \notin DOMAIN active
  /\ ArchiveKeysOf(last.id) # {}
  /\ active # << >>

\* C23: nextWipSlot() is the lowest integer of 1..N, N the configured WIP
\* limit, that no active item uses, and 1 only when all of 1..N are used
C23_NextSlotLowestFree ==
  getNextWipSlot(active) =
    IF FreeSlots(active, maxWIP) = {} THEN 1
    ELSE KthSmallest(FreeSlots(active, maxWIP), 1)

\* C27: every record of the archive has status archived and no record of
\* the active store has it
C27_StatusMatchesStore ==
  /\ \A k \in DOMAIN archive : archive[k].status = "archived"
  /\ \A id \in DOMAIN active : active[id].status # "archived"

\* C30: for every DoD entry of every stored item the completion timestamp
\* is set exactly when the completed flag is true
C30_TimestampIffCompleted ==
  /\ \A id \in DOMAIN active : \A i \in 1..Len(active[id].dod) :
       (active[id].dod[i].completedAt # <<>>) = active[id].dod[i].completed
  /\ \A k \in DOMAIN archive : \A i \in 1..Len(archive[k].dod) :
       (archive[k].dod[i].completedAt # <<>>) = archive[k].dod[i].completed

\* an entry of an active item was checked at the current hour while an
\* archived item holds an open entry
C30_Witness ==
  /\ last.op = "dodCheck"
  /\ last.id \in DOMAIN active
  /\ \E i \in 1..Len(active[last.id].dod) :
       /\ active[last.id].dod[i].completed
       /\ active[last.id].dod[i].completedAt = <<now>>
  /\ \E k \in DOMAIN archive : \E i \in 1..Len(archive[k].dod) :
       ~archive[k].dod[i].completed /\ archive[k].dod[i].completedAt = <<>>

\* C29: every result of import() has imported + skipped = the number of
\* candidates the fetch returned
C29_ImportedPlusSkipped ==
  last.op = "import" => last.res.imported + last.res.skipped = Len(last.cands)

\* C28: an item that is completed and stays in the active store is counted
\* by checkWipLimit(), and no item that create or import adds to the
\* active store takes its WIP slot
C28_CompletedHoldsSlot ==
  [][\A id \in DOMAIN active :
       (/\ active[id].status = "completed"
        /\ id \in DOMAIN active'
        /\ last'.op \in {"create", "import"}) =>
         /\ checkWipLimit(active', maxWIP).currentWip =
              Cardinality({k \in DOMAIN active' : active'[k].status # "completed"})
              + Cardinality({k \in DOMAIN active' : active'[k].status = "completed"})
         /\ \A new \in DOMAIN active' \ DOMAIN active :
              active'[new].wipSlot # active[id].wipSlot]_vars

\* the commands that run an import
ImportPaths == {"importCommand", "archiveOffer"}

\* the fetch and the reads and writes of item files
ImportActivity == {"fetch", "readItems", "writeItem"}

\* C21: on every import path, the first fetch or access to item files comes
\* after isConfigured() was evaluated and found true; an importer that is
\* not configured fetches nothing and touches no item file
C21_ConfiguredBeforeActivity ==
  last.op \in ImportPaths =>
    \A i \in 1..Len(last.events) :
      last.events[i] \in ImportActivity =>
        /\ isConfigured(github)
        /\ \E j \in 1..i - 1 : last.events[j] = "isConfigured"

\* the WIP slots no record of an active store holds
UnusedSlots(act) == {s \in 1..maxWIP : \A k \in DOMAIN act : act[k].wipSlot # s}

\* C24: when archive removes the active record the archived record is
\* already written; after the removal the item is not counted by
\* checkWipLimit() and its slot, if no other item holds it, is among the
\* slots of the import slot computation and, when it is the lowest free
\* slot, is what nextWipSlot() returns
C24_ArchiveWritesThenFrees ==
  [][\A p \in Procs :
       (procs[p].pc = "archiving" /\ procs'[p].pc = "idle" /\ last'.op = "archive") =>
         LET id == procs[p].id
             slot == procs[p].wipSlot
         IN /\ ArchiveKeysOf(id) # {}
            /\ \A k \in ArchiveKeysOf(id) : archive[k].status = "archived"
            /\ id \notin DOMAIN active'
            /\ checkWipLimit(active', maxWIP).currentWip =
                 Cardinality(DOMAIN active \ {id})
            /\ slot \in UnusedSlots(active') =>
                 /\ slot \in Range(nextSlotsOf(active', maxWIP, maxWIP))
                 /\ (\A s \in 1..slot - 1 : s \notin UnusedSlots(active')) =>
                      getNextWipSlot(active') = slot]_vars

\* an archive has returned under a WIP limit of one: the record is in the
\* archive only, the limit has room again and the slot is the next one
C24_Witness ==
  /\ last.op = "archive"
  /\ maxWIP = 1
  /\ active = << >>
  /\ checkWipLimit(active, maxWIP).isWithinLimit
  /\ \E k \in ArchiveKeysOf(last.id) :
       /\ archive[k].status = "archived"
       /\ getNextWipSlot(active) = archive[k].wipSlot

\* C25: a create writes the id and slot it drew before, whatever happened
\* to the stores since, and reports no error when a record of that id is
\* there already: the record is overwritten
C25_CreateWritesStaleDraw ==
  [][\A p \in Procs :
       (procs[p].pc = "drawn" /\ procs'[p].pc = "idle" /\ last'.op = "create") =>
         /\ last'.id = procs[p].id
         /\ last'.err = "none"
         /\ DOMAIN active' = DOMAIN active \cup {procs[p].id}
         /\ active'[procs[p].id].wipSlot = procs[p].wipSlot
         /\ \A k \in DOMAIN active \ {procs[p].id} : active'[k] = active[k]]_vars

\* under a WIP limit of one, two creates passed the check, drew the same id
\* and slot and both saved: the second save met the record of the first and
\* overwrote it without an error
C25_Witness ==
  /\ last.op = "create"
  /\ last.ret = TRUE
  /\ last.err = "none"
  /\ maxWIP = 1
  /\ issuedMax = 1
  /\ DOMAIN active = {FormatId(1)}
  /\ archive = << >>
  /\ \A p \in Procs : procs[p].pc = "idle"

\* the ids with a record in both stores
InBothStores(act, arch) == {id \in DOMAIN act : \E k \in DOMAIN arch : k[2] = id}

\* C26: a crash between the write of the archived record and the removal of
\* the active record changes neither store, so the item has a record in
\* both, and get(id) returns the active copy; membership in both stores ends
\* only by an archive or a delete of that id
C26_CrashLeavesBoth ==
  [][/\ \A p \in Procs :
          (/\ last'.op = "crash"
           /\ procs[p].pc = "archiving"
           /\ procs'[p].pc = "idle"
           /\ procs[p].id \in DOMAIN active) =>
            /\ active' = active
            /\ archive' = archive
            /\ procs[p].id \in InBothStores(active', archive')
            /\ getItem(procs[p].id, active', archive') = active'[procs[p].id]
     /\ \A id \in InBothStores(active, archive) \ InBothStores(active', archive') :
          last'.op \in {"archive", "delete"} /\ last'.id = id]_vars

\* an archive crashed after its write: the item is in both stores, no
\* invocation is running, and get(id) gives the record with status active
C26_Witness ==
  /\ last.op = "crash"
  /\ last.ret = TRUE
  /\ last.id \in InBothStores(active, archive)
  /\ \A p \in Procs : procs[p].pc = "idle"
  /\ getItem(last.id, active, archive).status = "active"

====
